---- MODULE Spec2Model ----
(***************************************************************************)
(* Model of the sports_betting frontend: the Supabase service functions    *)
(* (user_profiles, user_bets, chat_messages, user_simulations under the    *)
(* row-level-security policies of the schema), the settlement ledger that  *)
(* the design describes, the Simulations page, the games and game-details  *)
(* providers with their localStorage caches, and the profile check of the  *)
(* Supabase provider.                                                      *)
(*                                                                         *)
(* Money is kept in cents (DECIMAL(10, 2) columns).                        *)
(***************************************************************************)
EXTENDS Integers, Sequences, FiniteSets, TLC

VARIABLES
    user_profiles,   \* table user_profiles: user id -> row
    user_bets,       \* table user_bets: sequence of rows, id = position
    chat_messages,   \* table chat_messages, in created_at order
    user_simulations,\* table user_simulations, in created_at order
    games,           \* game id -> "scheduled" or its final result
    initial,         \* balance every wallet started with
    session,         \* the signed-in user, auth.uid() of every request
    calls,           \* placeBet invocations: in flight or returned
    response,        \* what the last service call other than placeBet returned
    selectedGame,    \* SimulationsPage state
    selectedPlayer,
    selectedMarket,
    betAmount,
    isLoading,
    simulationResults,
    activeTab,
    timeouts,        \* setTimeout callbacks of runSimulation not yet run
    now,             \* Date.now()
    localStorage,    \* window.localStorage: key -> stored string
    gamesProvider,   \* GamesProvider state: games, loading, error, lastFetched
    upcomingGames,   \* UpcomingGames state: games, loading, error
    gameDetailsProvider, \* GameDetailsProvider state
    pending,         \* requests to the backend API not yet answered
    issued,          \* number of requests sent so far
    lastCall,        \* what the step into this state called and did
    supabaseProvider,\* SupabaseProvider state: user, loading
    profileChecks,   \* the profile checks of getUser and onAuthStateChange
    floatingChat,    \* FloatingChat state: isOpen, messages, input, isLoading
    exchanges,       \* handleSendMessage calls and how far each has come
    historyLoads     \* loadChatHistory calls waiting for getChatMessages

pageVars == <<selectedGame, selectedPlayer, selectedMarket, betAmount,
              isLoading, simulationResults, activeTab, timeouts>>

providerVars == <<now, localStorage, gamesProvider, upcomingGames,
                  gameDetailsProvider, pending, issued, lastCall>>

authVars == <<supabaseProvider, profileChecks>>

chatVars == <<floatingChat, exchanges, historyLoads>>

vars == <<user_profiles, user_bets, chat_messages, user_simulations,
          games, initial, session, calls, response, pageVars, providerVars,
          authVars, chatVars>>

\* what the ledger operations do not touch
outsideLedger == <<chat_messages, user_simulations, response, pageVars,
                   providerVars, authVars, chatVars>>

----------------------------------------------------------------------------
(* Bounds and input sets *)

MaxCalls == 2
MaxRows == 2

Users == {"A", "B"}
Games == {"g1", "g2"}
NULL == "null"

Dollars(n) == n * 100

\* schema default of user_profiles.balance, and the funded wallet of the
\* chart data and of the scenarios
DefaultBalance == 0
FundedBalance == 1000
InitialBalances == {Dollars(DefaultBalance), Dollars(FundedBalance)}

\* the bets a client offers to placeBet: stake in cents and quoted price
BetInputs ==
    { [amount |-> Dollars(0), odds |-> "+110"],
      [amount |-> Dollars(50), odds |-> "+110"],
      [amount |-> Dollars(600), odds |-> "-130"] }
Results == {"home", "away", "tie"}

----------------------------------------------------------------------------
(* Odds and payouts *)

\* the price quoted in the TEXT column odds, as American odds
ParseOdds(s) ==
    CASE s = "+110" -> 110
      [] s = "-110" -> 0 - 110
      [] s = "-130" -> 0 - 130
      [] s = "-115" -> 0 - 115

RoundDiv(num, den) == (2 * num + den) \div (2 * den)

\* stake * payoutMultiplier(price): the stake back plus the winnings, to the cent
Payout(stake, odds) ==
    LET p == ParseOdds(odds)
    IN  IF p > 0 THEN stake + RoundDiv(stake * p, 100)
                 ELSE stake + RoundDiv(stake * 100, 0 - p)

RECURSIVE SumSeq(_)
SumSeq(s) == IF s = <<>> THEN 0 ELSE Head(s) + SumSeq(Tail(s))

----------------------------------------------------------------------------
(* Tables *)

\* a user_profiles row as createUserProfile leaves it: the money columns
\* take their schema defaults, except the balance the wallet is funded with
NewProfileRow(userId, balance) ==
    [id |-> userId, username |-> userId, full_name |-> "",
     balance |-> balance, total_winnings |-> 0,
     total_losses |-> 0, total_bets |-> 0, won_bets |-> 0]

\* the insert with a client-chosen status instead of the column default
NewBetRow_WonAtInsert(id, userId, gameId, amount, odds, potentialPayout) ==
    [id |-> id, user_id |-> userId, game_id |-> gameId,
     bet_type |-> "moneyline", description |-> "home",
     amount |-> amount, odds |-> odds, potential_payout |-> potentialPayout,
     status |-> "won", settled_amount |-> NULL]

\* the row placeBet inserts; id, status and settled_amount are not passed
\* and take their column defaults
NewBetRow(id, userId, gameId, amount, odds, potentialPayout) ==
    [id |-> id, user_id |-> userId, game_id |-> gameId,
     bet_type |-> "moneyline", description |-> "home",
     amount |-> amount, odds |-> odds, potential_payout |-> potentialPayout,
     status |-> "pending", settled_amount |-> NULL]

\* an INSERT policy that admits every row
BetsInsertPolicy_Open(uid, row) == TRUE

\* policy "Users can create their own bets": WITH CHECK (auth.uid() = user_id)
BetsInsertPolicy(uid, row) == uid = row.user_id

\* policy "Users can view their own bets": USING (auth.uid() = user_id)
BetsSelectPolicy(uid, row) == uid = row.user_id

\* policies "Users can view/update their own profile": USING (auth.uid() = id);
\* user_profiles has no INSERT policy, so row-level security denies inserts
ProfilesSelectPolicy(uid, row) == uid = row.id
ProfilesUpdatePolicy(uid, row) == uid = row.id
ProfilesInsertPolicy(uid, row) == FALSE

\* policies "Users can view/create their own chat messages"
ChatSelectPolicy(uid, row) == uid = row.user_id
ChatInsertPolicy(uid, row) == uid = row.user_id

\* policies "Users can view/create/update their own simulations"; the UPDATE
\* policy has USING only, which also checks the updated row
SimsSelectPolicy(uid, row) == uid = row.user_id
SimsInsertPolicy(uid, row) == uid = row.user_id
SimsUpdatePolicy(uid, row) == uid = row.user_id

NoResponse == [op |-> "none", uid |-> NULL, arg |-> NULL, rows |-> <<>>, error |-> NULL]

Reverse(s) == [i \in 1..Len(s) |-> s[Len(s) + 1 - i]]

\* row with the columns named in updates overwritten
Merge(row, updates) ==
    [f \in DOMAIN row |-> IF f \in DOMAIN updates THEN updates[f] ELSE row[f]]

----------------------------------------------------------------------------
(* SimulationsPage *)

mockGames == <<"all", "1", "2", "3">>
mockPlayers == <<"all", "1", "2", "3", "4">>
mockMarkets == <<"all", "points", "rebounds", "assists", "threes">>
BudgetItems == <<"50", "100", "200", "500", "1000">>

Range(s) == {s[i] : i \in DOMAIN s}

\* the recommendation lists of mockSimulationResults, in the order written
mockSimulationResults ==
    [allGamesSimulation |->
        << [id |-> "1", spreadConfidence |-> 58, totalConfidence |-> 55,
            moneylineConfidence |-> 62, recommendedBet |-> "Lakers -3.5",
            recommendedAmount |-> 75],
           [id |-> "2", spreadConfidence |-> 63, totalConfidence |-> 59,
            moneylineConfidence |-> 65, recommendedBet |-> "Over 228.5",
            recommendedAmount |-> 100],
           [id |-> "3", spreadConfidence |-> 52, totalConfidence |-> 57,
            moneylineConfidence |-> 56, recommendedBet |-> "Under 219.5",
            recommendedAmount |-> 50] >>,
     allPlayersProps |->
        << [id |-> "1", confidence |-> 65, recommendedBet |-> "Over 25.5 Points",
            recommendedAmount |-> 75],
           [id |-> "2", confidence |-> 62, recommendedBet |-> "Over 11.5 Rebounds",
            recommendedAmount |-> 50],
           [id |-> "3", confidence |-> 61, recommendedBet |-> "Over 26.5 Points",
            recommendedAmount |-> 60],
           [id |-> "4", confidence |-> 72, recommendedBet |-> "Over 4.5 3-Pointers",
            recommendedAmount |-> 100],
           [id |-> "5", confidence |-> 68, recommendedBet |-> "Over 29.5 Points",
            recommendedAmount |-> 80] >>]

\* the dashboard's recommended bets, in the order written
recommendedBets ==
    << [id |-> "1", odds |-> "+110", confidence |-> 85, recommendedAmount |-> 75],
       [id |-> "2", odds |-> "-110", confidence |-> 72, recommendedAmount |-> 50],
       [id |-> "3", odds |-> "-115", confidence |-> 78, recommendedAmount |-> 65] >>

\* useState(null): no results yet
NoResults == [none |-> TRUE]

\* what the pages render: .map over the list, one row per element, in order
Rendered(list) == list

PageInit ==
    /\ selectedGame = "all"
    /\ selectedPlayer = "all"
    /\ selectedMarket = "all"
    /\ betAmount = "100"
    /\ isLoading = FALSE
    /\ simulationResults = NoResults
    /\ activeTab = "games"
    /\ timeouts = 0

\* what the page does not touch
outsidePage == <<user_profiles, user_bets, chat_messages, user_simulations,
                 games, initial, session, calls, response, providerVars,
                 authVars, chatVars>>

setSelectedGame(v) ==
    /\ selectedGame' = v
    /\ UNCHANGED <<selectedPlayer, selectedMarket, betAmount, isLoading,
                   simulationResults, activeTab, timeouts, outsidePage>>

setSelectedPlayer(v) ==
    /\ selectedPlayer' = v
    /\ UNCHANGED <<selectedGame, selectedMarket, betAmount, isLoading,
                   simulationResults, activeTab, timeouts, outsidePage>>

setSelectedMarket(v) ==
    /\ selectedMarket' = v
    /\ UNCHANGED <<selectedGame, selectedPlayer, betAmount, isLoading,
                   simulationResults, activeTab, timeouts, outsidePage>>

setBetAmount(v) ==
    /\ betAmount' = v
    /\ UNCHANGED <<selectedGame, selectedPlayer, selectedMarket, isLoading,
                   simulationResults, activeTab, timeouts, outsidePage>>

\* the tabs exist once there are results; the two specific tabs only
\* while a game or a player is selected
TabTriggers ==
    IF simulationResults = NoResults THEN {}
    ELSE {"games", "players"}
         \cup (IF selectedGame # "all" THEN {"specific-game"} ELSE {})
         \cup (IF selectedPlayer # "all" THEN {"specific-player"} ELSE {})

setActiveTab(v) ==
    /\ v \in TabTriggers
    /\ activeTab' = v
    /\ UNCHANGED <<selectedGame, selectedPlayer, selectedMarket, betAmount,
                   isLoading, simulationResults, timeouts, outsidePage>>

\* the Run Simulation button is disabled while isLoading
runSimulation ==
    /\ ~isLoading
    /\ isLoading' = TRUE
    /\ timeouts' = timeouts + 1
    /\ UNCHANGED <<selectedGame, selectedPlayer, selectedMarket, betAmount,
                   simulationResults, activeTab, outsidePage>>

\* the callback drawing its result from an ambient random source
runSimulationTimeout_Random ==
    /\ timeouts > 0
    /\ \E r \in {mockSimulationResults,
                  [mockSimulationResults EXCEPT !.allPlayersProps = <<>>]} :
          simulationResults' = r
    /\ isLoading' = FALSE
    /\ timeouts' = timeouts - 1
    /\ UNCHANGED <<selectedGame, selectedPlayer, selectedMarket, betAmount,
                   activeTab, outsidePage>>

\* the callback publishing the result without clearing isLoading
runSimulationTimeout_KeepsLoading ==
    /\ timeouts > 0
    /\ simulationResults' = mockSimulationResults
    /\ timeouts' = timeouts - 1
    /\ UNCHANGED <<selectedGame, selectedPlayer, selectedMarket, betAmount,
                   isLoading, activeTab, outsidePage>>

\* the setTimeout callback, 1500 ms later
runSimulationTimeout ==
    /\ timeouts > 0
    /\ simulationResults' = mockSimulationResults
    /\ isLoading' = FALSE
    /\ timeouts' = timeouts - 1
    /\ UNCHANGED <<selectedGame, selectedPlayer, selectedMarket, betAmount,
                   activeTab, outsidePage>>

----------------------------------------------------------------------------
(* SupabaseProvider: the user of the session, and the profile check that
   getUser and the onAuthStateChange callback both make *)

MaxChecks == 2

SupabaseProviderInit == [user |-> NULL, loading |-> TRUE, mounted |-> FALSE]

AuthInit ==
    /\ supabaseProvider = SupabaseProviderInit
    /\ profileChecks = <<>>

outsideAuth == <<user_bets, chat_messages, user_simulations, games, initial,
                 session, calls, response, pageVars, providerVars, chatVars>>

\* a profile check starts for the user of the session, if there is one;
\* inserts counts the inserts it has sent
CheckProfile(sessionUser) ==
    IF sessionUser # NULL
    THEN /\ Len(profileChecks) < MaxChecks
         /\ profileChecks' = Append(profileChecks,
                                    [user |-> sessionUser, pc |-> "select",
                                     inserts |-> 0])
    ELSE profileChecks' = profileChecks

\* the mount effect: getUser up to its select
getUser ==
    /\ ~supabaseProvider.mounted
    /\ supabaseProvider' = [user |-> session, loading |-> FALSE, mounted |-> TRUE]
    /\ CheckProfile(session)
    /\ UNCHANGED <<user_profiles, outsideAuth>>

AuthEvents == {"SIGNED_IN", "SIGNED_OUT", "TOKEN_REFRESHED"}

\* the onAuthStateChange callback up to its select; supabase-js sends
\* SIGNED_OUT without a session and the other events with one
onAuthStateChange(event) ==
    /\ supabaseProvider.mounted
    /\ (event = "SIGNED_OUT") <=> (session = NULL)
    /\ supabaseProvider' = [supabaseProvider EXCEPT !.user = session]
    /\ CheckProfile(IF event = "SIGNED_IN" THEN session ELSE NULL)
    /\ UNCHANGED <<user_profiles, outsideAuth>>

\* select("id").eq("id", user.id).single(): an error unless exactly one row
\* is visible to auth.uid(); then `if (error || !data)` goes on to insert
selectProfile(k) ==
    /\ k \in DOMAIN profileChecks
    /\ profileChecks[k].pc = "select"
    /\ LET user == profileChecks[k].user
           found == /\ user \in DOMAIN user_profiles
                    /\ ProfilesSelectPolicy(session, user_profiles[user])
       IN  profileChecks' =
             [profileChecks EXCEPT ![k].pc = IF found THEN "done" ELSE "insert"]
    /\ UNCHANGED <<user_profiles, supabaseProvider, outsideAuth>>

\* insert([{id, username, full_name, avatar_url}]): the row is added when the
\* policies let auth.uid() insert it and the id is new; the result is not
\* looked at
insertProfile(k) ==
    /\ k \in DOMAIN profileChecks
    /\ profileChecks[k].pc = "insert"
    /\ LET user == profileChecks[k].user
           row == NewProfileRow(user, Dollars(DefaultBalance))
       IN  user_profiles' =
             IF ProfilesInsertPolicy(session, row) /\ user \notin DOMAIN user_profiles
             THEN [u \in DOMAIN user_profiles \cup {user} |->
                      IF u = user THEN row ELSE user_profiles[u]]
             ELSE user_profiles
    /\ profileChecks' = [profileChecks EXCEPT ![k].pc = "done", ![k].inserts = 1]
    /\ UNCHANGED <<supabaseProvider, outsideAuth>>

----------------------------------------------------------------------------
(* FloatingChat: the state of the component; a message is kept by its role and
   content *)

MaxSends == 1       \* handleSendMessage calls that send a message
MaxLoads == 1       \* loadChatHistory calls waiting at one time

\* what the user types: nothing, white space, a question
Inputs == {"", " ", "Who wins tonight?"}

\* String.prototype.trim on the inputs
trim_Identity(s) == s

trim(s) == IF s = " " THEN "" ELSE s

WelcomeMessage ==
    [role |-> "assistant",
     content |-> "Hello! I'm your betting assistant. How can I help you today?"]

responses ==
    << "Based on recent performance data, LeBron James has a 65% chance",
       "The Lakers vs Celtics game has an over/under of 214.5",
       "Jayson Tatum has averaged 28.3 points",
       "Looking at the Warriors vs Nets game, Stephen Curry",
       "Our model gives the Bucks a 62% chance" >>

FloatingChatInit ==
    [isOpen |-> FALSE, isMinimized |-> FALSE, isExpanded |-> FALSE,
     messages |-> <<>>, input |-> "", isLoading |-> FALSE]

ChatInit ==
    /\ floatingChat = FloatingChatInit
    /\ exchanges = <<>>
    /\ historyLoads = <<>>

----------------------------------------------------------------------------
(* The browser and the backend API: clock, localStorage, fetch *)

MaxRequests == 3

\* Cache expiration time - 5 minutes, in ms
CACHE_EXPIRATION == 5 * 60 * 1000

\* the instants the clock is read at
Clock == {1, 2, CACHE_EXPIRATION + 1, CACHE_EXPIRATION + 2}

EventIds == {"LAL_MIA", "GSW_BOS"}

\* useState<number | null>(null) and a missing key of the lastFetched record:
\* `lastFetched &&` takes null, undefined and 0 alike
NoTimestamp == 0

\* localStorage holds strings; getItem of a key never set gives null
Absent == [absent |-> TRUE]
\* a stored string that is neither JSON nor a number
Unparseable == [text |-> "{"]
Keys == {"gamesData", "gamesLastFetched", "gameDetailsData", "gameOddsLines",
         "gameDetailsLastFetched"}

\* JSON.stringify, and JSON.parse which throws on a string that is not JSON
JSONstringify(value) == [json |-> value]
ParseThrows(string) == "json" \notin DOMAIN string
JSONparse(string) == string.json

\* Number.prototype.toString, and parseInt(string, 10) which gives NaN on a
\* string that does not start with digits
toString(number) == [json |-> number]
IsNaN(string) == "json" \notin DOMAIN string
parseInt(string) == string.json

setItem(storage, key, value) == [storage EXCEPT ![key] = value]

\* the rows the backend serves
Game(e) == [event_id |-> e, event_name |-> e, competition_name |-> "NBA"]
UpcomingBodies == { <<>>, <<Game("LAL_MIA"), Game("GSW_BOS")>> }
Line(e) == [event_id |-> e, event_name |-> e, market_name |-> "moneyline"]
DetailsBodies(e) == { <<>>, <<Line(e)>> }
JSONnull == [null |-> TRUE]

\* a 2xx response whose body is the JSON null
NullResponse ==
    [kind |-> "response", ok |-> TRUE, status |-> 200, null |-> TRUE, body |-> <<>>]

\* how a fetch ends: a 2xx response with one of the bodies, a response that
\* is not 2xx, or a network error
FetchOutcomes(bodies) ==
    { [kind |-> "response", ok |-> TRUE, status |-> 200, null |-> FALSE, body |-> b] :
         b \in bodies }
    \cup { [kind |-> "response", ok |-> FALSE, status |-> 500, null |-> TRUE, body |-> <<>>],
           [kind |-> "network-error", ok |-> FALSE, status |-> 0, null |-> TRUE, body |-> <<>>] }

Failed(o) == o.kind = "network-error" \/ ~o.ok

\* gamesApi.getUpcomingGames: every error is logged and turned into []
getUpcomingGames(o) ==
    IF o.kind = "response" /\ o.ok
    THEN [threw |-> FALSE, null |-> FALSE, value |-> o.body, message |-> NULL]
    ELSE [threw |-> FALSE, null |-> FALSE, value |-> <<>>, message |-> NULL]

\* gamesApi.getGameDetails: every error is logged and thrown again
getGameDetails(o) ==
    IF o.kind = "response" /\ o.ok
    THEN [threw |-> FALSE, null |-> o.null, value |-> o.body, message |-> NULL]
    ELSE [threw |-> TRUE, null |-> TRUE, value |-> <<>>,
          message |-> IF o.kind = "response" THEN "Error: 500" ELSE "Failed to fetch"]

\* what the step into a state did: the function called, its arguments,
\* whether it sent a request and, for an answer, whether the request failed
Called(op, eventId, forceRefresh, requested, failed) ==
    lastCall' = [op |-> op, eventId |-> eventId, forceRefresh |-> forceRefresh,
                 requested |-> requested, failed |-> failed]
NoCall == [op |-> NULL, eventId |-> "", forceRefresh |-> FALSE,
           requested |-> FALSE, failed |-> FALSE]

\* a request goes out
Request(by, eventId, closure) ==
    /\ issued < MaxRequests
    /\ issued' = issued + 1
    /\ pending' = Append(pending, [by |-> by, eventId |-> eventId, lastFetched |-> closure])

Remove(seq, i) == [k \in 1..(Len(seq) - 1) |-> IF k < i THEN seq[k] ELSE seq[k + 1]]

outsideProviders == <<user_profiles, user_bets, chat_messages, user_simulations,
                      games, initial, session, calls, response, pageVars,
                      authVars, chatVars>>

\* time passes
Tick ==
    /\ \E t \in Clock : t > now /\ now' = t
    /\ lastCall' = NoCall
    /\ UNCHANGED <<localStorage, gamesProvider, upcomingGames, gameDetailsProvider,
                   pending, issued, outsideProviders>>

----------------------------------------------------------------------------
(* GamesProvider *)

GamesProviderInit ==
    [games |-> <<>>, loading |-> FALSE, error |-> NULL,
     lastFetched |-> NoTimestamp, mounted |-> FALSE]

\* the cache check without the age test
CacheValid_AnyAge(cachedData, cachedTimestamp) ==
    /\ cachedData # Absent /\ cachedTimestamp # Absent
    /\ ~ParseThrows(cachedData)
    /\ ~IsNaN(cachedTimestamp)

\* both keys are set, the data parses and the timestamp is less than five
\* minutes old (a comparison with NaN is false)
CacheValid(cachedData, cachedTimestamp) ==
    /\ cachedData # Absent /\ cachedTimestamp # Absent
    /\ ~ParseThrows(cachedData)
    /\ ~IsNaN(cachedTimestamp)
    /\ now - parseInt(cachedTimestamp) < CACHE_EXPIRATION

\* the mount effect: load cached data from localStorage
GamesProviderMount ==
    /\ ~gamesProvider.mounted
    /\ LET cachedData == localStorage["gamesData"]
           cachedTimestamp == localStorage["gamesLastFetched"]
       IN  gamesProvider' =
             IF CacheValid(cachedData, cachedTimestamp)
             THEN [gamesProvider EXCEPT !.games = JSONparse(cachedData),
                                        !.lastFetched = parseInt(cachedTimestamp),
                                        !.mounted = TRUE]
             ELSE [gamesProvider EXCEPT !.mounted = TRUE]
    /\ Called("GamesProvider mount", "", FALSE, FALSE, FALSE)
    /\ UNCHANGED <<now, localStorage, upcomingGames, gameDetailsProvider,
                   pending, issued, outsideProviders>>

\* the skip test taking a cache of exactly five minutes as fresh
StillFresh_Inclusive(forceRefresh) ==
    /\ ~forceRefresh
    /\ Len(gamesProvider.games) > 0
    /\ gamesProvider.lastFetched # NoTimestamp
    /\ now - gamesProvider.lastFetched <= CACHE_EXPIRATION

\* skip fetch if we have data and it's not expired, unless force refresh
StillFresh(forceRefresh) ==
    /\ ~forceRefresh
    /\ Len(gamesProvider.games) > 0
    /\ gamesProvider.lastFetched # NoTimestamp
    /\ now - gamesProvider.lastFetched < CACHE_EXPIRATION

NoClosure == [e \in EventIds |-> NoTimestamp]

\* fetchGames up to its await
fetchGames(forceRefresh) ==
    IF StillFresh(forceRefresh)
    THEN /\ Called("fetchGames", "", forceRefresh, FALSE, FALSE)
         /\ UNCHANGED <<now, localStorage, gamesProvider, upcomingGames,
                        gameDetailsProvider, pending, issued, outsideProviders>>
    ELSE /\ Request("GamesProvider", "", NoClosure)
         /\ gamesProvider' = [gamesProvider EXCEPT !.loading = TRUE]
         /\ Called("fetchGames", "", forceRefresh, TRUE, FALSE)
         /\ UNCHANGED <<now, localStorage, upcomingGames, gameDetailsProvider,
                        outsideProviders>>

\* GamesPage: the Refresh button is disabled while loading
handleRefresh ==
    /\ ~gamesProvider.loading
    /\ fetchGames(TRUE)

\* fetchGames from the answer of gamesApi.getUpcomingGames on
fetchGamesResume(i, o) ==
    /\ i \in DOMAIN pending
    /\ pending[i].by = "GamesProvider"
    /\ gamesProvider.mounted
    /\ LET data == getUpcomingGames(o)
           timestamp == now
       IN  IF data.threw
           THEN /\ gamesProvider' =
                     [gamesProvider EXCEPT !.error = "Failed to fetch games data",
                                           !.loading = FALSE]
                /\ localStorage' = localStorage
           ELSE /\ gamesProvider' =
                     [gamesProvider EXCEPT !.games = data.value,
                                           !.error = NULL,
                                           !.lastFetched = timestamp,
                                           !.loading = FALSE]
                /\ localStorage' =
                     setItem(setItem(localStorage, "gamesData", JSONstringify(data.value)),
                             "gamesLastFetched", toString(timestamp))
    /\ pending' = Remove(pending, i)
    /\ Called("fetchGames resumed", "", FALSE, FALSE, Failed(o))
    /\ UNCHANGED <<now, upcomingGames, gameDetailsProvider, issued, outsideProviders>>

----------------------------------------------------------------------------
(* UpcomingGames *)

UpcomingGamesInit ==
    [games |-> <<>>, loading |-> TRUE, error |-> NULL, mounted |-> FALSE]

\* the mount effect up to its await
UpcomingGamesMount ==
    /\ ~upcomingGames.mounted
    /\ Request("UpcomingGames", "", NoClosure)
    /\ upcomingGames' = [upcomingGames EXCEPT !.loading = TRUE, !.mounted = TRUE]
    /\ Called("UpcomingGames mount", "", FALSE, TRUE, FALSE)
    /\ UNCHANGED <<now, localStorage, gamesProvider, gameDetailsProvider,
                   outsideProviders>>

\* the mount effect from the answer on
UpcomingGamesResume(i, o) ==
    /\ i \in DOMAIN pending
    /\ pending[i].by = "UpcomingGames"
    /\ LET data == getUpcomingGames(o)
       IN  upcomingGames' =
             IF data.threw
             THEN [upcomingGames EXCEPT !.error = "Failed to load upcoming games",
                                        !.loading = FALSE]
             ELSE [upcomingGames EXCEPT !.games = data.value, !.error = NULL,
                                        !.loading = FALSE]
    /\ pending' = Remove(pending, i)
    /\ Called("UpcomingGames resumed", "", FALSE, FALSE, Failed(o))
    /\ UNCHANGED <<now, localStorage, gamesProvider, gameDetailsProvider,
                   issued, outsideProviders>>

----------------------------------------------------------------------------
(* GameDetailsProvider *)

GameDetailsProviderInit ==
    [gameDetails |-> JSONnull, oddsLines |-> <<>>, loading |-> FALSE,
     error |-> NULL, lastFetched |-> NoClosure, mounted |-> FALSE]

\* the mount effect: load cached data from localStorage
GameDetailsProviderMount ==
    /\ ~gameDetailsProvider.mounted
    /\ LET cachedDetails == localStorage["gameDetailsData"]
           cachedLines == localStorage["gameOddsLines"]
           cachedTimestamp == localStorage["gameDetailsLastFetched"]
       IN  gameDetailsProvider' =
             IF /\ cachedDetails # Absent /\ cachedLines # Absent
                /\ cachedTimestamp # Absent
                /\ ~ParseThrows(cachedDetails) /\ ~ParseThrows(cachedLines)
                /\ ~ParseThrows(cachedTimestamp)
             THEN [gameDetailsProvider EXCEPT
                      !.gameDetails = JSONparse(cachedDetails),
                      !.oddsLines = JSONparse(cachedLines),
                      !.lastFetched = JSONparse(cachedTimestamp),
                      !.mounted = TRUE]
             ELSE [gameDetailsProvider EXCEPT !.mounted = TRUE]
    /\ Called("GameDetailsProvider mount", "", FALSE, FALSE, FALSE)
    /\ UNCHANGED <<now, localStorage, gamesProvider, upcomingGames,
                   pending, issued, outsideProviders>>

\* the team names of an event id such as LAL_MIA, away team first
FallbackName(eventId) ==
    CASE eventId = "LAL_MIA" -> "Los Angeles Lakers @ Miami Heat"
      [] eventId = "GSW_BOS" -> "Golden State Warriors @ Boston Celtics"

\* the game details made up when the API gives no lines or fails
FallbackGameInfo(eventId) ==
    [event_id |-> eventId, name |-> FallbackName(eventId), competition_name |-> "NBA"]

\* the game details taken from the first line the API gave
GameInfo(data) ==
    [event_id |-> data[1].event_id, name |-> data[1].event_name,
     competition_name |-> "NBA"]

\* the timestamp of eventId is fresh and localStorage holds details and a
\* non-empty list of lines that parse
CachedDataValid(eventId, forceRefresh) ==
    /\ ~forceRefresh
    /\ gameDetailsProvider.lastFetched[eventId] # NoTimestamp
    /\ now - gameDetailsProvider.lastFetched[eventId] < CACHE_EXPIRATION
    /\ localStorage["gameDetailsData"] # Absent
    /\ localStorage["gameOddsLines"] # Absent
    /\ ~ParseThrows(localStorage["gameDetailsData"])
    /\ ~ParseThrows(localStorage["gameOddsLines"])
    /\ JSONparse(localStorage["gameDetailsData"]) # JSONnull
    /\ Len(JSONparse(localStorage["gameOddsLines"])) > 0

\* fetchGameDetails up to its await
fetchGameDetails(eventId, forceRefresh) ==
    IF eventId = ""
    THEN /\ Called("fetchGameDetails", eventId, forceRefresh, FALSE, FALSE)
         /\ UNCHANGED <<now, localStorage, gamesProvider, upcomingGames,
                        gameDetailsProvider, pending, issued, outsideProviders>>
    ELSE IF CachedDataValid(eventId, forceRefresh)
    THEN /\ gameDetailsProvider' =
              [gameDetailsProvider EXCEPT
                  !.gameDetails = JSONparse(localStorage["gameDetailsData"]),
                  !.oddsLines = JSONparse(localStorage["gameOddsLines"])]
         /\ Called("fetchGameDetails", eventId, forceRefresh, FALSE, FALSE)
         /\ UNCHANGED <<now, localStorage, gamesProvider, upcomingGames,
                        pending, issued, outsideProviders>>
    ELSE /\ Request("GameDetailsProvider", eventId, gameDetailsProvider.lastFetched)
         /\ gameDetailsProvider' =
              [gameDetailsProvider EXCEPT !.loading = TRUE, !.error = NULL]
         /\ Called("fetchGameDetails", eventId, forceRefresh, TRUE, FALSE)
         /\ UNCHANGED <<now, localStorage, gamesProvider, upcomingGames,
                        outsideProviders>>

ErrorText(message) ==
    CASE message = "Error: 500" -> "Could not fetch odds data: Error: 500"
      [] message = "Failed to fetch" -> "Could not fetch odds data: Failed to fetch"
      [] OTHER -> "Could not fetch odds data: No data returned from API"

\* the catch block clearing the lines it could not refresh
Caught_ClearsLines(eventId, data) ==
    [gameDetailsProvider EXCEPT
        !.gameDetails = FallbackGameInfo(eventId),
        !.oddsLines = <<>>,
        !.error = ErrorText(data.message),
        !.loading = FALSE]

\* the catch block without the finally block
Caught_KeepsLoading(eventId, data) ==
    [gameDetailsProvider EXCEPT
        !.gameDetails = FallbackGameInfo(eventId),
        !.error = ErrorText(data.message)]

\* the state after the catch and finally blocks
Caught(eventId, data) ==
    [gameDetailsProvider EXCEPT
        !.gameDetails = FallbackGameInfo(eventId),
        !.error = ErrorText(data.message),
        !.loading = FALSE]

\* fetchGameDetails from the answer of gamesApi.getGameDetails on; the
\* localStorage timestamp is built from the lastFetched of the render the
\* call was made in
fetchGameDetailsResume(i, o) ==
    /\ i \in DOMAIN pending
    /\ pending[i].by = "GameDetailsProvider"
    /\ gameDetailsProvider.mounted
    /\ LET eventId == pending[i].eventId
           lastFetched == pending[i].lastFetched
           data == getGameDetails(o)
           timestamp == now
           gameInfo == IF Len(data.value) = 0 THEN FallbackGameInfo(eventId)
                       ELSE GameInfo(data.value)
       IN  IF data.threw \/ data.null
           THEN /\ gameDetailsProvider' = Caught(eventId, data)
                /\ localStorage' = localStorage
           ELSE /\ gameDetailsProvider' =
                     [gameDetailsProvider EXCEPT
                         !.gameDetails = gameInfo,
                         !.oddsLines = data.value,
                         !.lastFetched = [@ EXCEPT ![eventId] = timestamp],
                         !.loading = FALSE]
                /\ localStorage' =
                     setItem(setItem(setItem(localStorage,
                         "gameDetailsData", JSONstringify(gameInfo)),
                         "gameOddsLines", JSONstringify(data.value)),
                         "gameDetailsLastFetched",
                         JSONstringify([lastFetched EXCEPT ![eventId] = timestamp]))
    /\ pending' = Remove(pending, i)
    /\ Called("fetchGameDetails resumed", pending[i].eventId, FALSE, FALSE, Failed(o))
    /\ UNCHANGED <<now, gamesProvider, upcomingGames, issued, outsideProviders>>

----------------------------------------------------------------------------
(* The three components in one page load *)

\* the page is loaded again: component state starts over, answers to the
\* old page are dropped, localStorage stays
Reload ==
    /\ gamesProvider.mounted \/ gameDetailsProvider.mounted
    /\ gamesProvider' = GamesProviderInit
    /\ upcomingGames' = UpcomingGamesInit
    /\ gameDetailsProvider' = GameDetailsProviderInit
    /\ pending' = <<>>
    /\ Called("reload", "", FALSE, FALSE, FALSE)
    /\ UNCHANGED <<now, localStorage, issued, outsideProviders>>

EmptyStorage == [k \in Keys |-> Absent]

\* what an earlier visit, or anything else writing to the origin's storage,
\* can have left behind
InitialStorage ==
    { EmptyStorage,
      [EmptyStorage EXCEPT !["gamesData"] = Unparseable,
                           !["gamesLastFetched"] = toString(1)],
      [EmptyStorage EXCEPT !["gamesData"] = JSONstringify(<<Game("LAL_MIA")>>),
                           !["gamesLastFetched"] = Unparseable],
      [EmptyStorage EXCEPT !["gamesData"] = JSONstringify(<<Game("LAL_MIA")>>)],
      [EmptyStorage EXCEPT !["gameDetailsData"] = Unparseable,
                           !["gameOddsLines"] = Unparseable,
                           !["gameDetailsLastFetched"] = Unparseable] }

ProvidersInit ==
    /\ now = 1
    /\ localStorage = EmptyStorage
    /\ gamesProvider = GamesProviderInit
    /\ upcomingGames = UpcomingGamesInit
    /\ gameDetailsProvider = GameDetailsProviderInit
    /\ pending = <<>>
    /\ issued = 0
    /\ lastCall = NoCall

InitProviders ==
    /\ initial = Dollars(DefaultBalance)
    /\ user_profiles = [u \in Users |-> NewProfileRow(u, initial)]
    /\ user_bets = <<>>
    /\ chat_messages = <<>>
    /\ user_simulations = <<>>
    /\ games = [g \in Games |-> "scheduled"]
    /\ session = NULL
    /\ calls = <<>>
    /\ response = NoResponse
    /\ PageInit
    /\ now = 1
    /\ localStorage \in InitialStorage
    /\ gamesProvider = GamesProviderInit
    /\ upcomingGames = UpcomingGamesInit
    /\ gameDetailsProvider = GameDetailsProviderInit
    /\ pending = <<>>
    /\ issued = 0
    /\ lastCall = NoCall
    /\ AuthInit
    /\ ChatInit

\* the answers GET /games/{eventId} can give to request i
DetailsOutcomes(i) ==
    IF i \in DOMAIN pending
    THEN FetchOutcomes(DetailsBodies(pending[i].eventId)) \cup {NullResponse}
    ELSE {}

\* the games list: GamesProvider under GamesPage, and UpcomingGames
NextGames ==
    \/ Tick
    \/ GamesProviderMount
    \/ fetchGames(FALSE)
    \/ handleRefresh
    \/ \E i \in 1..MaxRequests, o \in FetchOutcomes(UpcomingBodies) :
          fetchGamesResume(i, o)
    \/ UpcomingGamesMount
    \/ \E i \in 1..MaxRequests, o \in FetchOutcomes(UpcomingBodies) :
          UpcomingGamesResume(i, o)
    \/ Reload

SpecGames == InitProviders /\ [][NextGames]_vars

\* one game: GameDetailsProvider under GameDetailPage
NextGameDetails ==
    \/ Tick
    \/ GameDetailsProviderMount
    \/ \E eventId \in EventIds \cup {""}, forceRefresh \in BOOLEAN :
          fetchGameDetails(eventId, forceRefresh)
    \/ \E i \in 1..MaxRequests :
          \E o \in DetailsOutcomes(i) : fetchGameDetailsResume(i, o)
    \/ Reload

SpecGameDetails == InitProviders /\ [][NextGameDetails]_vars

\* a first visit: nothing in localStorage
InitFetch ==
    /\ InitProviders
    /\ localStorage = EmptyStorage

\* the two providers of the layout within one cache period
NextFetch ==
    \/ GamesProviderMount
    \/ fetchGames(FALSE)
    \/ handleRefresh
    \/ \E i \in 1..MaxRequests, o \in FetchOutcomes(UpcomingBodies) :
          fetchGamesResume(i, o)
    \/ GameDetailsProviderMount
    \/ \E eventId \in EventIds \cup {""}, forceRefresh \in BOOLEAN :
          fetchGameDetails(eventId, forceRefresh)
    \/ \E i \in 1..MaxRequests :
          \E o \in DetailsOutcomes(i) : fetchGameDetailsResume(i, o)

\* mount effects run, and every fetch settles: the browser answers it or
\* reports a network error
SpecFetchFair ==
    /\ InitFetch
    /\ [][NextFetch]_vars
    /\ WF_vars(GamesProviderMount)
    /\ WF_vars(GameDetailsProviderMount)
    /\ WF_vars(\E i \in 1..MaxRequests, o \in FetchOutcomes(UpcomingBodies) :
                  fetchGamesResume(i, o))
    /\ WF_vars(\E i \in 1..MaxRequests :
                  \E o \in DetailsOutcomes(i) : fetchGameDetailsResume(i, o))

----------------------------------------------------------------------------
(* placeBet: the call is issued, then the insert runs in the database and the
   promise resolves or rejects *)

CallPlaceBet(userId, gameId, amount, odds) ==
    /\ Len(calls) < MaxCalls
    /\ calls' = Append(calls,
          [actor |-> session, userId |-> userId, gameId |-> gameId,
           amount |-> amount, odds |-> odds,
           potentialPayout |-> Payout(amount, odds),
           state |-> "pending", ok |-> FALSE, error |-> NULL])
    /\ UNCHANGED <<user_profiles, user_bets, games, initial, session, outsideLedger>>

placeBet(i) ==
    /\ i \in DOMAIN calls
    /\ calls[i].state = "pending"
    /\ LET c == calls[i]
           row == NewBetRow(Len(user_bets) + 1, c.userId, c.gameId, c.amount,
                            c.odds, c.potentialPayout)
       IN  IF BetsInsertPolicy(c.actor, row)
           THEN /\ user_bets' = Append(user_bets, row)
                /\ calls' = [calls EXCEPT ![i].state = "done", ![i].ok = TRUE]
           ELSE /\ user_bets' = user_bets
                /\ calls' = [calls EXCEPT ![i].state = "done",
                                          ![i].error = "RowLevelSecurity"]
    /\ UNCHANGED <<user_profiles, games, initial, session, outsideLedger>>

----------------------------------------------------------------------------
(* Results feed and settlement *)

FinalResult(g, r) ==
    /\ games[g] = "scheduled"
    /\ games' = [games EXCEPT ![g] = r]
    /\ UNCHANGED <<user_profiles, user_bets, initial, session, calls, outsideLedger>>

\* the bet's market condition against the final result
Outcome(bet, result) ==
    IF result = "tie" THEN "push"
    ELSE IF result = bet.description THEN "won" ELSE "lost"

\* settlement that does not look at the bet's status
Settles_AnyStatus(bet, gs, g) ==
    /\ bet.game_id = g
    /\ gs[g] # "scheduled"

\* the bets settle(g) acts on: PENDING bets on a game that is final
Settles(bet, gs, g) ==
    /\ bet.game_id = g
    /\ gs[g] # "scheduled"
    /\ bet.status = "pending"

SettledAmount(bet, result) ==
    CASE Outcome(bet, result) = "won" -> Payout(bet.amount, bet.odds)
      [] Outcome(bet, result) = "push" -> bet.amount
      [] Outcome(bet, result) = "lost" -> 0

SettledBets(bets, gs, g) ==
    [i \in DOMAIN bets |->
        IF Settles(bets[i], gs, g)
        THEN [bets[i] EXCEPT !.status = Outcome(bets[i], gs[g]),
                             !.settled_amount = SettledAmount(bets[i], gs[g])]
        ELSE bets[i]]

SettledProfiles(profiles, bets, gs, g) ==
    [u \in DOMAIN profiles |->
        LET mine(i) == bets[i].user_id = u /\ Settles(bets[i], gs, g)
            is(i, o) == mine(i) /\ Outcome(bets[i], gs[g]) = o
            credit == SumSeq([i \in DOMAIN bets |->
                         IF mine(i) THEN SettledAmount(bets[i], gs[g]) ELSE 0])
            winnings == SumSeq([i \in DOMAIN bets |->
                         IF is(i, "won") THEN SettledAmount(bets[i], gs[g]) ELSE 0])
            losses == SumSeq([i \in DOMAIN bets |->
                         IF is(i, "lost") THEN bets[i].amount ELSE 0])
            wins == SumSeq([i \in DOMAIN bets |-> IF is(i, "won") THEN 1 ELSE 0])
        IN  [profiles[u] EXCEPT !.balance = @ + credit,
                                !.total_winnings = @ + winnings,
                                !.total_losses = @ + losses,
                                !.won_bets = @ + wins]]

settle(g) ==
    /\ user_bets' = SettledBets(user_bets, games, g)
    /\ user_profiles' = SettledProfiles(user_profiles, user_bets, games, g)
    /\ UNCHANGED <<games, initial, session, calls, outsideLedger>>

----------------------------------------------------------------------------
(* The service functions, each one request made as auth.uid() = session; the
   pages call them for the signed-in user only (if (!user) return) *)

\* what the service functions do not touch
outsideServices == <<games, initial, pageVars, providerVars, authVars,
                     chatVars>>

ProfileUpdates == { [username |-> "renamed", full_name |-> "Renamed"] }
SimulationUpdates == { [name |-> "renamed"] } \cup { [user_id |-> u] : u \in Users }

\* rows written or about to be written by the service functions
RowCount == Len(calls) + Len(chat_messages) + Len(user_simulations)

Respond(op, arg, rows, error) ==
    response' = [op |-> op, uid |-> session, arg |-> arg, rows |-> rows, error |-> error]

SignIn(u) ==
    /\ session = NULL
    /\ session' = u
    /\ UNCHANGED <<user_profiles, user_bets, chat_messages, user_simulations,
                   calls, response, outsideServices>>

handleSignOut ==
    /\ session # NULL
    /\ session' = NULL
    /\ UNCHANGED <<user_profiles, user_bets, chat_messages, user_simulations,
                   calls, response, outsideServices>>

getUserProfile(userId) ==
    /\ session # NULL
    /\ LET found == userId \in DOMAIN user_profiles
                    /\ ProfilesSelectPolicy(session, user_profiles[userId])
       IN  IF found
           THEN Respond("getUserProfile", userId, <<user_profiles[userId]>>, NULL)
           ELSE Respond("getUserProfile", userId, <<>>, "PGRST116")
    /\ UNCHANGED <<user_profiles, user_bets, chat_messages, user_simulations,
                   session, calls, outsideServices>>

createUserProfile(user) ==
    /\ session # NULL
    /\ LET row == NewProfileRow(user, Dollars(DefaultBalance))
       IN  IF ~ProfilesInsertPolicy(session, row)
           THEN /\ Respond("createUserProfile", user, <<>>, "RowLevelSecurity")
                /\ user_profiles' = user_profiles
           ELSE IF user \in DOMAIN user_profiles
           THEN /\ Respond("createUserProfile", user, <<>>, "DuplicateKey")
                /\ user_profiles' = user_profiles
           ELSE /\ Respond("createUserProfile", user, <<>>, NULL)
                /\ user_profiles' =
                      [u \in DOMAIN user_profiles \cup {user} |->
                          IF u = user THEN row ELSE user_profiles[u]]
    /\ UNCHANGED <<user_bets, chat_messages, user_simulations,
                   session, calls, outsideServices>>

updateUserProfile(userId, updates) ==
    /\ session # NULL
    /\ LET matched == userId \in DOMAIN user_profiles
                      /\ ProfilesUpdatePolicy(session, user_profiles[userId])
           new == Merge(user_profiles[userId], updates)
       IN  IF ~matched
           THEN /\ Respond("updateUserProfile", userId, <<>>, NULL)
                /\ user_profiles' = user_profiles
           ELSE IF ~ProfilesUpdatePolicy(session, new)
           THEN /\ Respond("updateUserProfile", userId, <<>>, "RowLevelSecurity")
                /\ user_profiles' = user_profiles
           ELSE /\ Respond("updateUserProfile", userId, <<>>, NULL)
                /\ user_profiles' = [user_profiles EXCEPT ![userId] = new]
    /\ UNCHANGED <<user_bets, chat_messages, user_simulations,
                   session, calls, outsideServices>>

getChatMessages(userId) ==
    /\ session # NULL
    /\ LET Test(r) == r.user_id = userId /\ ChatSelectPolicy(session, r)
       IN  Respond("getChatMessages", userId, SelectSeq(chat_messages, Test), NULL)
    /\ UNCHANGED <<user_profiles, user_bets, chat_messages, user_simulations,
                   session, calls, outsideServices>>

saveChatMessage(userId, role, content) ==
    /\ session # NULL
    /\ RowCount < MaxRows
    /\ LET row == [id |-> Len(chat_messages) + 1, user_id |-> userId,
                   role |-> role, content |-> content]
       IN  IF ChatInsertPolicy(session, row)
           THEN /\ chat_messages' = Append(chat_messages, row)
                /\ Respond("saveChatMessage", userId, <<>>, NULL)
           ELSE /\ chat_messages' = chat_messages
                /\ Respond("saveChatMessage", userId, <<>>, "RowLevelSecurity")
    /\ UNCHANGED <<user_profiles, user_bets, user_simulations,
                   session, calls, outsideServices>>

getUserBets(userId) ==
    /\ session # NULL
    /\ LET Test(r) == r.user_id = userId /\ BetsSelectPolicy(session, r)
       IN  Respond("getUserBets", userId, Reverse(SelectSeq(user_bets, Test)), NULL)
    /\ UNCHANGED <<user_profiles, user_bets, chat_messages, user_simulations,
                   session, calls, outsideServices>>

getUserSimulations(userId) ==
    /\ session # NULL
    /\ LET Test(r) == r.user_id = userId /\ SimsSelectPolicy(session, r)
       IN  Respond("getUserSimulations", userId,
                   Reverse(SelectSeq(user_simulations, Test)), NULL)
    /\ UNCHANGED <<user_profiles, user_bets, chat_messages, user_simulations,
                   session, calls, outsideServices>>

saveSimulation(userId, name, description, parameters, results) ==
    /\ session # NULL
    /\ RowCount < MaxRows
    /\ LET row == [id |-> Len(user_simulations) + 1, user_id |-> userId,
                   name |-> name, description |-> description,
                   parameters |-> parameters, results |-> results]
       IN  IF SimsInsertPolicy(session, row)
           THEN /\ user_simulations' = Append(user_simulations, row)
                /\ Respond("saveSimulation", userId, <<>>, NULL)
           ELSE /\ user_simulations' = user_simulations
                /\ Respond("saveSimulation", userId, <<>>, "RowLevelSecurity")
    /\ UNCHANGED <<user_profiles, user_bets, chat_messages,
                   session, calls, outsideServices>>

updateSimulation(simulationId, updates) ==
    /\ session # NULL
    /\ LET matched == simulationId \in DOMAIN user_simulations
                      /\ SimsUpdatePolicy(session, user_simulations[simulationId])
           new == Merge(user_simulations[simulationId], updates)
       IN  IF ~matched
           THEN /\ Respond("updateSimulation", simulationId, <<>>, NULL)
                /\ user_simulations' = user_simulations
           ELSE IF ~SimsUpdatePolicy(session, new)
           THEN /\ Respond("updateSimulation", simulationId, <<>>, "RowLevelSecurity")
                /\ user_simulations' = user_simulations
           ELSE /\ Respond("updateSimulation", simulationId, <<>>, NULL)
                /\ user_simulations' = [user_simulations EXCEPT ![simulationId] = new]
    /\ UNCHANGED <<user_profiles, user_bets, chat_messages,
                   session, calls, outsideServices>>

InitServices ==
    /\ initial = Dollars(DefaultBalance)
    /\ user_profiles = [u \in Users |-> NewProfileRow(u, initial)]
    /\ user_bets = <<>>
    /\ chat_messages = <<>>
    /\ user_simulations = <<>>
    /\ games = [g \in Games |-> "scheduled"]
    /\ session = NULL
    /\ calls = <<>>
    /\ response = NoResponse
    /\ PageInit
    /\ ProvidersInit
    /\ AuthInit
    /\ ChatInit

NextServices ==
    \/ \E u \in Users : SignIn(u)
    \/ handleSignOut
    \/ \E userId \in Users : getUserProfile(userId)
    \/ \E user \in Users : createUserProfile(user)
    \/ \E userId \in Users, updates \in ProfileUpdates : updateUserProfile(userId, updates)
    \/ \E userId \in Users : getChatMessages(userId)
    \/ \E userId \in Users : saveChatMessage(userId, "user", "hello")
    \/ \E userId \in Users : getUserBets(userId)
    \/ session # NULL /\ RowCount < MaxRows /\ \E userId \in Users :
          CallPlaceBet(userId, "g1", Dollars(50), "+110")
    \/ \E i \in 1..MaxCalls : placeBet(i)
    \/ \E userId \in Users : getUserSimulations(userId)
    \/ \E userId \in Users : saveSimulation(userId, "sim", "", "{}", "{}")
    \/ \E simulationId \in 1..MaxRows, updates \in SimulationUpdates :
          updateSimulation(simulationId, updates)

SpecServices == InitServices /\ [][NextServices]_vars

\* the profiles an administrator made before the first visit
InitAuth ==
    /\ initial = Dollars(DefaultBalance)
    /\ \E created \in SUBSET Users :
          user_profiles = [u \in created |-> NewProfileRow(u, initial)]
    /\ user_bets = <<>>
    /\ chat_messages = <<>>
    /\ user_simulations = <<>>
    /\ games = [g \in Games |-> "scheduled"]
    /\ session \in Users \cup {NULL}
    /\ calls = <<>>
    /\ response = NoResponse
    /\ PageInit
    /\ ProvidersInit
    /\ AuthInit
    /\ ChatInit

\* signing in and out under a mounted SupabaseProvider, and the profile page
NextAuth ==
    \/ \E u \in Users : SignIn(u)
    \/ handleSignOut
    \/ getUser
    \/ \E event \in AuthEvents : onAuthStateChange(event)
    \/ \E k \in 1..MaxChecks : selectProfile(k)
    \/ \E k \in 1..MaxChecks : insertProfile(k)
    \/ \E userId \in Users : getUserProfile(userId)
    \/ \E userId \in Users, updates \in ProfileUpdates : updateUserProfile(userId, updates)

SpecAuth == InitAuth /\ [][NextAuth]_vars

----------------------------------------------------------------------------
(* FloatingChat *)

outsideChat == <<user_profiles, user_bets, user_simulations, games, initial,
                 session, calls, response, pageVars, authVars,
                 now, localStorage, gamesProvider, upcomingGames,
                 gameDetailsProvider, pending, issued>>

\* the form is on screen and its controls are enabled
FormEnabled ==
    /\ floatingChat.isOpen
    /\ ~floatingChat.isMinimized
    /\ ~floatingChat.isLoading

\* the rows are shown by role and content, oldest first
formattedMessages(rows) ==
    [i \in DOMAIN rows |-> [role |-> rows[i].role, content |-> rows[i].content]]

\* toggleChat, and the load effect that runs when the chat has opened: without
\* a user the welcome message is set, with one getChatMessages is awaited
toggleChat ==
    LET open == ~floatingChat.isOpen
        user == supabaseProvider.user
    IN  /\ open /\ user # NULL => Len(historyLoads) < MaxLoads
        /\ floatingChat' =
              [floatingChat EXCEPT
                  !.isOpen = open,
                  !.isMinimized = FALSE,
                  !.messages = IF open /\ user = NULL THEN <<WelcomeMessage>> ELSE @]
        /\ historyLoads' = IF open /\ user # NULL
                           THEN Append(historyLoads, user)
                           ELSE historyLoads
        /\ lastCall' = NoCall
        /\ UNCHANGED <<chat_messages, exchanges, outsideChat>>

\* loadChatHistory after getChatMessages has answered or thrown
loadChatHistory(k, failed) ==
    /\ k \in DOMAIN historyLoads
    /\ LET Test(r) == r.user_id = historyLoads[k] /\ ChatSelectPolicy(session, r)
           chatHistory == SelectSeq(chat_messages, Test)
       IN  floatingChat' =
              [floatingChat EXCEPT
                  !.messages = IF ~failed /\ Len(chatHistory) > 0
                               THEN formattedMessages(chatHistory)
                               ELSE <<WelcomeMessage>>]
    /\ historyLoads' = Remove(historyLoads, k)
    /\ lastCall' = NoCall
    /\ UNCHANGED <<chat_messages, exchanges, outsideChat>>

toggleMinimize ==
    /\ floatingChat.isOpen
    /\ floatingChat' = [floatingChat EXCEPT !.isMinimized = ~@]
    /\ lastCall' = NoCall
    /\ UNCHANGED <<chat_messages, exchanges, historyLoads, outsideChat>>

toggleExpand ==
    /\ floatingChat.isOpen
    /\ floatingChat' = [floatingChat EXCEPT !.isExpanded = ~@]
    /\ lastCall' = NoCall
    /\ UNCHANGED <<chat_messages, exchanges, historyLoads, outsideChat>>

setInput(v) ==
    /\ FormEnabled
    /\ floatingChat' = [floatingChat EXCEPT !.input = v]
    /\ lastCall' = NoCall
    /\ UNCHANGED <<chat_messages, exchanges, historyLoads, outsideChat>>

\* with a user the timeout is set only after saveChatMessage has been awaited
TimerSetAtSend_Always(user) == TRUE

TimerSetAtSend(user) == user = NULL

\* handleSendMessage up to its first await: the early return on blank input,
\* else the user message, the cleared input and isLoading
handleSendMessage ==
    LET input == floatingChat.input
        user == supabaseProvider.user
    IN  /\ FormEnabled
        /\ IF trim(input) = ""
           THEN /\ Called("handleSendMessage", "", FALSE, FALSE, FALSE)
                /\ UNCHANGED <<floatingChat, exchanges>>
           ELSE /\ Len(exchanges) < MaxSends
                /\ Called("handleSendMessage", "", FALSE, TRUE, FALSE)
                /\ floatingChat' =
                      [floatingChat EXCEPT
                          !.messages = Append(@, [role |-> "user", content |-> input]),
                          !.input = "",
                          !.isLoading = TRUE]
                /\ exchanges' =
                      Append(exchanges,
                             [user |-> user, input |-> input,
                              userSave |-> IF user # NULL THEN "pending" ELSE "none",
                              timer |-> IF TimerSetAtSend(user) THEN "set" ELSE "unset",
                              randomResponse |-> "",
                              replySave |-> "none",
                              userRow |-> 0, replyRow |-> 0])
        /\ UNCHANGED <<chat_messages, historyLoads, outsideChat>>

\* the insert of saveChatMessage as the database sees it
ChatRow(userId, role, content) ==
    [id |-> Len(chat_messages) + 1, user_id |-> userId,
     role |-> role, content |-> content]

\* the awaited saveChatMessage of the user message settles, a failure is only
\* logged, and the timeout is set
saveUserMessage(k) ==
    /\ k \in DOMAIN exchanges
    /\ exchanges[k].userSave = "pending"
    /\ LET row == ChatRow(exchanges[k].user, "user", exchanges[k].input)
           saved == ChatInsertPolicy(session, row)
       IN  /\ chat_messages' = IF saved THEN Append(chat_messages, row)
                               ELSE chat_messages
           /\ exchanges' =
                 [exchanges EXCEPT
                     ![k].userSave = IF saved THEN "saved" ELSE "failed",
                     ![k].userRow = IF saved THEN row.id ELSE 0,
                     ![k].timer = IF @ = "unset" THEN "set" ELSE @]
    /\ lastCall' = NoCall
    /\ UNCHANGED <<floatingChat, historyLoads, outsideChat>>

\* the timeout callback up to its await: one of the responses is appended and
\* isLoading ends
assistantReply(k, r) ==
    /\ k \in DOMAIN exchanges
    /\ exchanges[k].timer = "set"
    /\ r \in DOMAIN responses
    /\ floatingChat' =
          [floatingChat EXCEPT
              !.messages = Append(@, [role |-> "assistant", content |-> responses[r]]),
              !.isLoading = FALSE]
    /\ exchanges' =
          [exchanges EXCEPT
              ![k].timer = "fired",
              ![k].randomResponse = responses[r],
              ![k].replySave = IF exchanges[k].user # NULL THEN "pending" ELSE "none"]
    /\ lastCall' = NoCall
    /\ UNCHANGED <<chat_messages, historyLoads, outsideChat>>

\* the saveChatMessage of the reply settles, a failure is only logged
saveAssistantMessage(k) ==
    /\ k \in DOMAIN exchanges
    /\ exchanges[k].replySave = "pending"
    /\ LET row == ChatRow(exchanges[k].user, "assistant", exchanges[k].randomResponse)
           saved == ChatInsertPolicy(session, row)
       IN  /\ chat_messages' = IF saved THEN Append(chat_messages, row)
                               ELSE chat_messages
           /\ exchanges' =
                 [exchanges EXCEPT
                     ![k].replySave = IF saved THEN "saved" ELSE "failed",
                     ![k].replyRow = IF saved THEN row.id ELSE 0]
    /\ lastCall' = NoCall
    /\ UNCHANGED <<floatingChat, historyLoads, outsideChat>>

\* the chat under a SupabaseProvider that has read the session
InitChat ==
    /\ initial = Dollars(DefaultBalance)
    /\ user_profiles = [u \in Users |-> NewProfileRow(u, initial)]
    /\ user_bets = <<>>
    /\ chat_messages = <<>>
    /\ user_simulations = <<>>
    /\ games = [g \in Games |-> "scheduled"]
    /\ session \in Users \cup {NULL}
    /\ calls = <<>>
    /\ response = NoResponse
    /\ PageInit
    /\ ProvidersInit
    /\ supabaseProvider = [user |-> session, loading |-> FALSE, mounted |-> TRUE]
    /\ profileChecks = <<>>
    /\ ChatInit

NextChat ==
    \/ toggleChat
    \/ \E k \in 1..MaxLoads, failed \in BOOLEAN : loadChatHistory(k, failed)
    \/ toggleMinimize
    \/ toggleExpand
    \/ \E v \in Inputs : setInput(v)
    \/ handleSendMessage
    \/ \E k \in 1..MaxSends : saveUserMessage(k)
    \/ \E k \in 1..MaxSends, r \in DOMAIN responses : assistantReply(k, r)
    \/ \E k \in 1..MaxSends : saveAssistantMessage(k)
    \/ handleSignOut

SpecChat == InitChat /\ [][NextChat]_vars

\* a promise settles and a timeout fires
SpecChatFair ==
    /\ SpecChat
    /\ \A k \in 1..MaxSends : WF_vars(saveUserMessage(k))
    /\ \A k \in 1..MaxSends : WF_vars(\E r \in DOMAIN responses : assistantReply(k, r))

InitPage ==
    /\ InitServices

NextPage ==
    \/ \E v \in Range(mockGames) : setSelectedGame(v)
    \/ \E v \in Range(mockPlayers) : setSelectedPlayer(v)
    \/ \E v \in Range(mockMarkets) : setSelectedMarket(v)
    \/ \E v \in Range(BudgetItems) : setBetAmount(v)
    \/ \E v \in {"games", "players", "specific-game", "specific-player"} : setActiveTab(v)
    \/ runSimulation
    \/ runSimulationTimeout

SpecPage == InitPage /\ [][NextPage]_vars

\* the event loop runs every timer callback that is due
SpecPageFair == SpecPage /\ WF_vars(runSimulationTimeout)

----------------------------------------------------------------------------
(* The ledger: wallets, bets, results and settlement; the signed-in user
   places bets from their own wallet *)

Init ==
    /\ initial \in InitialBalances
    /\ user_profiles = [u \in Users |-> NewProfileRow(u, initial)]
    /\ user_bets = <<>>
    /\ games = [g \in Games |-> "scheduled"]
    /\ session \in Users
    /\ calls = <<>>
    /\ chat_messages = <<>>
    /\ user_simulations = <<>>
    /\ response = NoResponse
    /\ PageInit
    /\ ProvidersInit
    /\ AuthInit
    /\ ChatInit

Next ==
    \/ \E gameId \in Games, b \in BetInputs :
            CallPlaceBet(session, gameId, b.amount, b.odds)
    \/ \E i \in 1..MaxCalls : placeBet(i)
    \/ \E g \in Games, r \in Results : FinalResult(g, r)
    \/ \E g \in Games : settle(g)

Spec == Init /\ [][Next]_vars

----------------------------------------------------------------------------
(* Ledger properties *)

\* the step in which call i returns
Returns(i) == calls[i].state = "pending" /\ calls'[i].state = "done"

\* what place(bet) requires, in the state the insert runs in
PlaceAllowed(c) ==
    /\ c.amount > 0
    /\ c.amount <= user_profiles[c.userId].balance
    /\ games[c.gameId] = "scheduled"

\* C1: a placeBet call succeeds only when stake > 0, stake <= balance and the
\* game is not final; otherwise it fails with InsufficientBalance or
\* GameAlreadyFinal and leaves the wallet and the bets as they were
C1_PlaceOnlyWhenAllowed ==
    [][\A i \in DOMAIN calls : Returns(i) =>
          /\ calls'[i].ok => PlaceAllowed(calls[i])
          /\ ~PlaceAllowed(calls[i]) =>
               /\ ~calls'[i].ok
               /\ calls[i].actor = calls[i].userId =>
                    calls'[i].error \in {"InsufficientBalance", "GameAlreadyFinal"}
               /\ UNCHANGED <<user_profiles, user_bets>>]_vars

\* C2: a successful placeBet debits the balance by exactly the stake, creates
\* exactly one bet, in status PENDING, and increments total_bets by one
C2_PlaceDebitsAndCounts ==
    [][\A i \in DOMAIN calls : (Returns(i) /\ calls'[i].ok) =>
          LET u == calls[i].userId
          IN  /\ user_profiles'[u].balance = user_profiles[u].balance - calls[i].amount
              /\ user_profiles'[u].total_bets = user_profiles[u].total_bets + 1
              /\ Len(user_bets') = Len(user_bets) + 1
              /\ user_bets'[Len(user_bets')].status = "pending"]_vars

\* two placeBet calls of 600 by the owner of wallet u, both returned, with
\* nothing else placed from or settled into the wallet
TwoCallsOf600(u, i, j) ==
    /\ i \in DOMAIN calls /\ j \in DOMAIN calls /\ i < j
    /\ \A k \in {i, j} :
          /\ calls[k].state = "done"
          /\ calls[k].actor = u /\ calls[k].userId = u
          /\ calls[k].amount = Dollars(600)
          /\ games[calls[k].gameId] = "scheduled"
    /\ \A k \in DOMAIN calls \ {i, j} : calls[k].userId # u
    /\ \A b \in DOMAIN user_bets :
          user_bets[b].user_id = u => user_bets[b].status = "pending"

\* C3: of two concurrent placeBet calls of 600 against a balance of 1000,
\* exactly one succeeds, the other returns InsufficientBalance, the final
\* balance is 400 and the balance is never overdrawn
C3_ConcurrentPlaceNoOverdraw ==
    /\ \A u \in Users : user_profiles[u].balance >= 0
    /\ \A u \in Users : \A i, j \in DOMAIN calls :
          (initial = Dollars(1000) /\ TwoCallsOf600(u, i, j)) =>
             /\ calls[i].ok # calls[j].ok
             /\ \A k \in {i, j} : ~calls[k].ok => calls[k].error = "InsufficientBalance"
             /\ user_profiles[u].balance = Dollars(400)

\* sum of f over the bets of user u in one of the statuses
SumBets(u, statuses, f(_)) ==
    SumSeq([i \in DOMAIN user_bets |->
               IF user_bets[i].user_id = u /\ user_bets[i].status \in statuses
               THEN f(user_bets[i]) ELSE 0])

Stake(bet) == bet.amount
Settled(bet) == bet.settled_amount

\* C4: ledger conservation: balance = initial - stakes of pending and lost
\* bets + payouts of won bets + refunds of pushed bets
C4_LedgerConservation ==
    \A u \in Users :
        user_profiles[u].balance =
            initial - SumBets(u, {"pending", "lost"}, Stake)
                    + SumBets(u, {"won"}, Settled)
                    + SumBets(u, {"push"}, Settled)

\* C5: every bet is created PENDING, a status only moves from PENDING to
\* WON, LOST or PUSH, and a bet that is WON, LOST or PUSH keeps its status
C5_StatusTransitions ==
    [][/\ DOMAIN user_bets \subseteq DOMAIN user_bets'
       /\ \A i \in DOMAIN user_bets' \ DOMAIN user_bets :
             user_bets'[i].status = "pending"
       /\ \A i \in DOMAIN user_bets :
             user_bets'[i].status # user_bets[i].status =>
                /\ user_bets[i].status = "pending"
                /\ user_bets'[i].status \in {"won", "lost", "push"}]_vars

\* a settled bet next to a bet placed on the same game after it was final
C5_Witness ==
    \E i, j \in DOMAIN user_bets :
        /\ user_bets[i].game_id = user_bets[j].game_id
        /\ games[user_bets[i].game_id] # "scheduled"
        /\ user_bets[i].status \in {"won", "lost", "push"}
        /\ user_bets[j].status = "pending"

\* C6: settling a game twice leaves every wallet and every bet as settling
\* it once does
C6_SettleIdempotent ==
    \A g \in Games :
        LET bets1 == SettledBets(user_bets, games, g)
            profiles1 == SettledProfiles(user_profiles, user_bets, games, g)
        IN  /\ SettledBets(bets1, games, g) = bets1
            /\ SettledProfiles(profiles1, bets1, games, g) = profiles1

\* a final game with a pending bet to credit and a bet already credited
C6_Witness ==
    \E i, j \in DOMAIN user_bets :
        /\ user_bets[i].game_id = user_bets[j].game_id
        /\ games[user_bets[i].game_id] = "home"
        /\ user_bets[i].status = "won" /\ user_bets[i].settled_amount > 0
        /\ user_bets[j].status = "pending" /\ user_bets[j].amount > 0

\* the wallet of u holds exactly one bet: 50 at +110
OnlyBet50At110(u) ==
    /\ initial = Dollars(1000)
    /\ \E i \in DOMAIN user_bets :
          /\ user_bets[i].user_id = u
          /\ user_bets[i].amount = Dollars(50) /\ user_bets[i].odds = "+110"
          /\ \A j \in DOMAIN user_bets \ {i} : user_bets[j].user_id # u

\* C7: with starting balance 1000, a bet of 50 at +110 leaves balance 950
\* while PENDING; settled WON it pays 105: balance 1055, total_winnings 105
C7_ScenarioB ==
    \A u \in Users : OnlyBet50At110(u) =>
        /\ SumBets(u, {"pending"}, Stake) = Dollars(50) =>
              user_profiles[u].balance = Dollars(950)
        /\ SumBets(u, {"won"}, Stake) = Dollars(50) =>
              /\ user_profiles[u].balance = Dollars(1055)
              /\ user_profiles[u].total_winnings = Dollars(105)

----------------------------------------------------------------------------
(* Row-level isolation *)

Owner(row) == IF "user_id" \in DOMAIN row THEN row.user_id ELSE row.id

\* C8: no operation performed as user A returns or creates a row of
\* user_bets, chat_messages or user_simulations whose user_id is another
\* user's, nor returns or updates another user's user_profiles row
C8_RowIsolation ==
    [][/\ \A k \in DOMAIN response'.rows : Owner(response'.rows[k]) = response'.uid
       /\ \A k \in DOMAIN user_bets' \ DOMAIN user_bets :
             \E i \in DOMAIN calls :
                Returns(i) /\ calls[i].actor = user_bets'[k].user_id
       /\ \A k \in DOMAIN chat_messages' \ DOMAIN chat_messages :
             chat_messages'[k].user_id = session
       /\ \A k \in DOMAIN user_simulations' \ DOMAIN user_simulations :
             user_simulations'[k].user_id = session
       /\ \A k \in DOMAIN user_simulations :
             user_simulations'[k] # user_simulations[k] =>
                /\ user_simulations[k].user_id = session
                /\ user_simulations'[k].user_id = session
       /\ \A k \in DOMAIN user_bets : user_bets'[k] = user_bets[k]
       /\ \A k \in DOMAIN chat_messages : chat_messages'[k] = chat_messages[k]
       /\ \A u \in DOMAIN user_profiles :
             user_profiles'[u] # user_profiles[u] => u = session]_vars

\* a signed-in user asked for another user's bets, which exist, and got none
C8_Witness ==
    /\ response.op = "getUserBets"
    /\ response.uid \in Users /\ response.arg \in Users \ {response.uid}
    /\ \E k \in DOMAIN user_bets : user_bets[k].user_id = response.arg
    /\ response.rows = <<>>

----------------------------------------------------------------------------
(* Recommendations *)

\* the budget chosen in the Betting Budget select, in dollars
Budget(v) ==
    CASE v = "50" -> 50 [] v = "100" -> 100 [] v = "200" -> 200
      [] v = "500" -> 500 [] v = "1000" -> 1000

SumStakes(list) == SumSeq([i \in DOMAIN list |-> list[i].recommendedAmount])

\* C9: the recommended stakes of every batch shown for the chosen budget sum
\* to no more than that budget
C9_StakesWithinBudget ==
    simulationResults # NoResults =>
        /\ SumStakes(Rendered(simulationResults.allGamesSimulation)) <= Budget(betAmount)
        /\ SumStakes(Rendered(simulationResults.allPlayersProps)) <= Budget(betAmount)

RankedByConfidence(list) ==
    \A i, j \in DOMAIN list : i < j => list[i].confidence >= list[j].confidence

\* C10: recommendations are listed by confidence descending: none appears
\* before one with strictly higher confidence
C10_RankedByConfidence ==
    simulationResults # NoResults =>
        /\ RankedByConfidence(Rendered(simulationResults.allPlayersProps))
        /\ RankedByConfidence(Rendered(recommendedBets))

----------------------------------------------------------------------------
(* Simulation runs *)

\* C11: determinism: a simulation run that finishes while the result of an
\* earlier run is on the page publishes the same result, whatever the
\* selections of the two runs
C11_RunsAgree ==
    [][(isLoading /\ ~isLoading' /\ simulationResults # NoResults) =>
          simulationResults' = simulationResults]_vars

\* a second run in flight over the result of the first, with other selections
C11_Witness ==
    /\ simulationResults # NoResults
    /\ isLoading /\ timeouts = 1
    /\ selectedGame # "all" /\ betAmount # "100"

\* C12: every started simulation run terminates: once runSimulation has set
\* isLoading, isLoading returns to false with a result available
C12_RunTerminates ==
    isLoading ~> (~isLoading /\ simulationResults # NoResults)

\* a run has finished: nothing in flight and the result on the page
C12_Witness ==
    /\ ~isLoading /\ timeouts = 0
    /\ simulationResults = mockSimulationResults

----------------------------------------------------------------------------
(* The games list *)

\* C14: fetchGames(forceRefresh) sends a request if and only if forceRefresh
\* is true, or the games list is empty, or lastFetched is null or five
\* minutes or more old; otherwise it sends none and leaves games, loading,
\* error, lastFetched and localStorage unchanged
C14_FetchGamesRequestsIff ==
    [][lastCall'.op = "fetchGames" =>
          LET due == \/ lastCall'.forceRefresh
                     \/ Len(gamesProvider.games) = 0
                     \/ gamesProvider.lastFetched = NoTimestamp
                     \/ now - gamesProvider.lastFetched >= CACHE_EXPIRATION
          IN  /\ lastCall'.requested <=> due
              /\ lastCall'.requested <=>
                    /\ Len(pending') = Len(pending) + 1
                    /\ pending'[Len(pending')].by = "GamesProvider"
              /\ ~due => UNCHANGED <<gamesProvider, localStorage, pending, issued>>]_vars

\* fetchGames() over a list fetched exactly five minutes ago sent a request
C14_Witness ==
    /\ lastCall.op = "fetchGames" /\ ~lastCall.forceRefresh /\ lastCall.requested
    /\ Len(gamesProvider.games) > 0
    /\ now - gamesProvider.lastFetched = CACHE_EXPIRATION

\* the age of the cached games list, when its timestamp is a number
CacheAge == now - parseInt(localStorage["gamesLastFetched"])

\* C15: on mount GamesProvider takes games from localStorage only when the
\* cached timestamp is less than five minutes old; with a cache entry five
\* minutes old or older, missing or unparseable, games stays empty and
\* lastFetched stays null
C15_MountUsesFreshCacheOnly ==
    [][lastCall'.op = "GamesProvider mount" =>
          LET cachedData == localStorage["gamesData"]
              cachedTimestamp == localStorage["gamesLastFetched"]
              missing == cachedData = Absent \/ cachedTimestamp = Absent
              unparseable == ParseThrows(cachedData) \/ IsNaN(cachedTimestamp)
              old == ~IsNaN(cachedTimestamp) /\ CacheAge >= CACHE_EXPIRATION
          IN  /\ Len(gamesProvider'.games) > 0 =>
                    /\ ~IsNaN(cachedTimestamp) /\ CacheAge < CACHE_EXPIRATION
                    /\ gamesProvider'.games = JSONparse(cachedData)
              /\ (missing \/ unparseable \/ old) =>
                    /\ gamesProvider'.games = <<>>
                    /\ gamesProvider'.lastFetched = NoTimestamp]_vars

\* the provider mounted over a cached list that is five minutes old
C15_Witness ==
    /\ lastCall.op = "GamesProvider mount"
    /\ ~ParseThrows(localStorage["gamesData"])
    /\ Len(JSONparse(localStorage["gamesData"])) > 0
    /\ ~IsNaN(localStorage["gamesLastFetched"])
    /\ CacheAge = CACHE_EXPIRATION
    /\ gamesProvider.games = <<>>

\* C16: when the upcoming-games request fails, GamesProvider sets error to
\* "Failed to fetch games data" and keeps its games list and cache, and
\* UpcomingGames sets error to "Failed to load upcoming games"; a failed
\* request is never recorded as a successful empty result
C16_FailedRequestEndsInError ==
    [][/\ (lastCall'.op = "fetchGames resumed" /\ lastCall'.failed) =>
             /\ gamesProvider'.error = "Failed to fetch games data"
             /\ gamesProvider'.games = gamesProvider.games
             /\ localStorage' = localStorage
       /\ (lastCall'.op = "UpcomingGames resumed" /\ lastCall'.failed) =>
             upcomingGames'.error = "Failed to load upcoming games"]_vars

----------------------------------------------------------------------------
(* One game's details *)

\* C17: after fetchGameDetails(eventId) completes through the cache, the
\* gameDetails are those of eventId and the oddsLines are lines of eventId,
\* whatever was fetched before
C17_CachedDetailsAreOfEvent ==
    [][(/\ lastCall'.op = "fetchGameDetails" /\ lastCall'.eventId # ""
        /\ ~lastCall'.requested) =>
          /\ gameDetailsProvider'.gameDetails.event_id = lastCall'.eventId
          /\ \A k \in DOMAIN gameDetailsProvider'.oddsLines :
                gameDetailsProvider'.oddsLines[k].event_id = lastCall'.eventId]_vars

DetailsKeys == {"gameDetailsData", "gameOddsLines", "gameDetailsLastFetched"}

\* C18: when the game-details request for eventId fails, fetchGameDetails ends
\* with loading false, an error, and gameDetails a fallback whose event_id is
\* eventId; lastFetched, oddsLines and the three cache keys stay as they were
C18_FailedDetailsFallback ==
    [][(lastCall'.op = "fetchGameDetails resumed" /\ lastCall'.failed) =>
          /\ ~gameDetailsProvider'.loading
          /\ gameDetailsProvider'.error # NULL
          /\ gameDetailsProvider'.gameDetails.event_id = lastCall'.eventId
          /\ gameDetailsProvider'.lastFetched = gameDetailsProvider.lastFetched
          /\ gameDetailsProvider'.oddsLines = gameDetailsProvider.oddsLines
          /\ \A k \in DetailsKeys : localStorage'[k] = localStorage[k]]_vars

\* a request failed over lines and a cache left by an earlier fetch
C18_Witness ==
    /\ lastCall.op = "fetchGameDetails resumed" /\ lastCall.failed
    /\ Len(gameDetailsProvider.oddsLines) > 0
    /\ localStorage["gameOddsLines"] # Absent
    /\ gameDetailsProvider.lastFetched[lastCall.eventId] # NoTimestamp

\* C19: every fetchGames or fetchGameDetails call that sets loading to true
\* sets it back to false in the end, whether the request succeeds, returns
\* empty data or fails
C19_LoadingEnds ==
    /\ gamesProvider.loading ~> ~gamesProvider.loading
    /\ gameDetailsProvider.loading ~> ~gameDetailsProvider.loading
    /\ [][/\ lastCall'.op = "fetchGames resumed" => ~gamesProvider'.loading
          /\ lastCall'.op = "fetchGameDetails resumed" =>
                ~gameDetailsProvider'.loading]_vars

\* both providers are idle again, one after a failed request and the other
\* after an empty answer
C19_Witness ==
    /\ pending = <<>>
    /\ ~gamesProvider.loading /\ ~gameDetailsProvider.loading
    /\ gamesProvider.lastFetched # NoTimestamp /\ gamesProvider.games = <<>>
    /\ gameDetailsProvider.error # NULL

----------------------------------------------------------------------------
(* Profiles *)

\* C20: after a user signs in (session present at mount, or a SIGNED_IN
\* event), a user_profiles row with the user's id exists: once the profile
\* check of SupabaseProvider is through, the row is there
C20_ProfileExistsAfterSignIn ==
    \A k \in DOMAIN profileChecks :
        profileChecks[k].pc = "done" =>
            profileChecks[k].user \in DOMAIN user_profiles

\* the inserts into user_profiles that the profile checks have sent for u
InsertsFor(u) ==
    SumSeq([k \in DOMAIN profileChecks |->
               IF profileChecks[k].user = u THEN profileChecks[k].inserts ELSE 0])

\* C21: for any interleaving of the mount-time session check and the
\* SIGNED_IN callback, an insert into user_profiles is sent only when no row
\* with the user's id exists, and at most one insert is sent per user
C21_AtMostOneInsert ==
    /\ \A u \in Users : InsertsFor(u) <= 1
    /\ \A k \in DOMAIN profileChecks :
          profileChecks[k].pc = "insert" =>
              profileChecks[k].user \notin DOMAIN user_profiles

----------------------------------------------------------------------------
\* no character, or white space only
Blank(s) == s \in {"", " "}

\* a step in which handleSendMessage is called
SendCall ==
    /\ lastCall' # lastCall
    /\ lastCall'.op = "handleSendMessage"

\* a step in which the timeout callback of a call runs
ReplyStep ==
    \E k \in DOMAIN exchanges :
        exchanges[k].timer = "set" /\ exchanges'[k].timer = "fired"

\* a step in which a saveChatMessage of a call settles
SaveStep ==
    \E k \in DOMAIN exchanges :
        \/ exchanges[k].userSave = "pending" /\ exchanges'[k].userSave # "pending"
        \/ exchanges[k].replySave = "pending" /\ exchanges'[k].replySave # "pending"

\* C22: a handleSendMessage call with non-blank input appends the user message
\* and turns isLoading on, and isLoading goes on in no other step; the timeout
\* callback of the call runs, appends one assistant message and turns isLoading
\* off, and isLoading goes off in no other step; the saves of the call leave
\* the component alone; a call with blank or white-space input changes nothing.
C22_ExchangeAppendsUserThenAssistant ==
    /\ [][SendCall /\ ~Blank(floatingChat.input) =>
             /\ floatingChat'.messages =
                   Append(floatingChat.messages,
                          [role |-> "user", content |-> floatingChat.input])
             /\ ~floatingChat.isLoading
             /\ floatingChat'.isLoading]_vars
    /\ [][SendCall /\ Blank(floatingChat.input) =>
             UNCHANGED <<floatingChat, exchanges, historyLoads, chat_messages>>]_vars
    /\ [][~floatingChat.isLoading /\ floatingChat'.isLoading =>
             SendCall /\ ~Blank(floatingChat.input)]_vars
    /\ [][ReplyStep =>
             /\ \E r \in DOMAIN responses :
                   floatingChat'.messages =
                      Append(floatingChat.messages,
                             [role |-> "assistant", content |-> responses[r]])
             /\ floatingChat.isLoading
             /\ ~floatingChat'.isLoading]_vars
    /\ [][floatingChat.isLoading /\ ~floatingChat'.isLoading => ReplyStep]_vars
    /\ [][SaveStep => UNCHANGED floatingChat]_vars
    /\ (floatingChat.isLoading ~> ~floatingChat.isLoading)

C22_Witness ==
    LET messages == floatingChat.messages
        n == Len(messages)
    IN  /\ ~floatingChat.isLoading
        /\ lastCall.op = "handleSendMessage" => ~lastCall.requested
        /\ \E k \in DOMAIN exchanges :
              /\ exchanges[k].timer = "fired"
              /\ n >= 2
              /\ messages[n - 1] = [role |-> "user", content |-> exchanges[k].input]
              /\ messages[n] = [role |-> "assistant",
                                content |-> exchanges[k].randomResponse]

----------------------------------------------------------------------------
\* the place of the row with this id in chat_messages, which is in the order
\* of created_at; 0 when there is no such row
PlaceOf(id) ==
    IF \E i \in DOMAIN chat_messages : chat_messages[i].id = id
    THEN CHOOSE i \in DOMAIN chat_messages : chat_messages[i].id = id
    ELSE 0

\* C23: in a call made with a user, the timeout is set and the save of the
\* reply is started only after the save of the user message has succeeded or
\* failed, and when both rows are stored the user message comes before its
\* reply in chat_messages.
C23_UserSaveSettlesBeforeReplySave ==
    \A k \in DOMAIN exchanges :
        exchanges[k].user # NULL =>
            /\ exchanges[k].timer # "unset" =>
                  exchanges[k].userSave \in {"saved", "failed"}
            /\ exchanges[k].replySave # "none" =>
                  exchanges[k].userSave \in {"saved", "failed"}
            /\ exchanges[k].userRow # 0 /\ exchanges[k].replyRow # 0 =>
                  /\ PlaceOf(exchanges[k].userRow) # 0
                  /\ PlaceOf(exchanges[k].userRow) < PlaceOf(exchanges[k].replyRow)
                  /\ chat_messages[PlaceOf(exchanges[k].userRow)].role = "user"
                  /\ chat_messages[PlaceOf(exchanges[k].replyRow)].role = "assistant"

C23_Witness ==
    \E k \in DOMAIN exchanges :
        /\ exchanges[k].user # NULL
        /\ exchanges[k].userSave = "saved"
        /\ exchanges[k].replySave = "saved"
        /\ PlaceOf(exchanges[k].userRow) < PlaceOf(exchanges[k].replyRow)

====
